---- MODULE Spec2Model ----
(***************************************************************************)
(* Model of import_to_elastic.py, the bulk import of the Healthy Basket     *)
(* dataset (products and promotions) through the Elasticsearch _bulk API,  *)
(* and of test_mcp_connection.py, the MCP connectivity test.               *)
(*                                                                         *)
(*   make_bulk_lines  Record -> action line, body line                     *)
(*   chunked          lines  -> batches of (size * 2) lines                *)
(*   send_bulk        one POST per batch, raise on failure                 *)
(*   import_documents the two passes and the printed summary               *)
(*   main             dataset and API key tests, then import_documents     *)
(*   parse_tool_specs, main (MCP)  initialize, tools/list, tools/call      *)
(*                                                                         *)
(* The specifications of the module:                                       *)
(*   SpecEncoder  make_bulk_lines applied to one Record                    *)
(*   SpecChunked  chunked applied to one line sequence                     *)
(*   Spec         one run of import_documents, the sink answering freely   *)
(*   SpecRerun    the program run again against a sink that stores         *)
(*   SpecMain     main() from its first line                               *)
(*   SpecSerial   import_documents over Records json.dumps may reject      *)
(*   SpecSummary  the summary over every list of response items            *)
(*   SpecMcp      one run of the MCP connectivity test                     *)
(***************************************************************************)
EXTENDS Integers, Sequences, FiniteSets, TLC

VARIABLES
    \* ---- one run of import_documents / main
    dataset,          \* [products, promotions]: the two Record sequences
    chunk_size,       \* --chunk-size (any int: argparse type=int)
    skip_promotions,  \* --skip-promotions
    pc,               \* position of the run
    product_lines,    \* import_documents: product_lines
    promotion_lines,  \* import_documents: promotion_lines
    cursor,           \* number of batches of the current for-loop already taken
    batches_sent,     \* import_documents: batches_sent
    errors,           \* import_documents: errors (every per-item outcome)
    failed,           \* import_documents: failed
    output,           \* what print() wrote, in order
    exit_msg,         \* the SystemExit message the process ends with, or NoExit
    posted,           \* every body handed to requests.post, in order
    delivered,        \* the requests the sink answered 2xx, in order
    answers,          \* the decoded 2xx responses, in order
    sink,             \* keys of the documents the sink stores
    auto_ids,         \* ids the sink has assigned to documents without _id
    run,              \* which run of the program this is (1, 2, ...)
    sink_before,      \* sink as it was when the current run started
    first_run,        \* how the first run ended: "running", "done", "aborted"
    \* ---- one application of make_bulk_lines
    enc_doc, enc_index, enc_out, enc_done,
    \* ---- one application of chunked
    ch_lines, ch_size, ch_out, ch_done,
    \* ---- main() of import_to_elastic.py before import_documents
    dataset_file,     \* what --dataset-path names: "ok", "missing", "invalid"
    api_key,          \* args.api_key
    \* ---- main() of test_mcp_connection.py
    m_args,           \* the parsed command line
    m_pc,             \* position of the run
    m_requests,       \* every JSON-RPC request made, in order
    m_replies,        \* how each request ended: "ok" or "failed"
    m_available,      \* available_tools, as the names of the tools
    m_queue,          \* tool_specs
    m_idx,            \* idx of the for-loop over tool_specs
    m_out,            \* what print() wrote, in order
    m_exit            \* the SystemExit message, or NoExit

runVars == <<dataset, chunk_size, skip_promotions, pc, product_lines,
             promotion_lines, cursor, batches_sent, errors, failed, output,
             exit_msg, posted, delivered, answers, sink, auto_ids, run, sink_before, first_run>>
encVars == <<enc_doc, enc_index, enc_out, enc_done>>
chVars  == <<ch_lines, ch_size, ch_out, ch_done>>
mainVars == <<dataset_file, api_key>>
mcpVars == <<m_args, m_pc, m_requests, m_replies, m_available, m_queue, m_idx,
             m_out, m_exit>>
vars    == <<runVars, encVars, chVars, mainVars, mcpVars>>

----------------------------------------------------------------------------
(* Bounds *)

MaxProducts   == 2    \* Records in dataset["products"]
MaxPromotions == 2    \* Records in dataset["promotions"]
MaxChunk      == 2    \* largest --chunk-size tried
MaxLines      == 5    \* longest line sequence given to chunked alone
MaxRuns       == 2    \* runs of the program against the same sink

\* argparse accepts any int: negative, zero and positive sizes are inputs.
ChunkSizes == (0 - 1)..MaxChunk

----------------------------------------------------------------------------
(* Values *)

DEFAULT_PRODUCTS_INDEX   == "healthy-basket-products"
DEFAULT_PROMOTIONS_INDEX == "healthy-basket-promotions"

\* A field of a Record: missing (dict.get gives None), JSON null, the empty
\* string, the number 0, or a non-empty string.
Absent == "<absent>"
Null   == "<null>"
Zero   == "<0>"
FieldValues == {Absent, Null, "", Zero, "p1", "q1"}

\* Python truthiness of doc.get(field): None, "" and 0 are falsy.
Truthy(v) == v \notin {Absent, Null, "", Zero}

\* What `a or b` evaluates to.
PyOr(a, b) == IF Truthy(a) THEN a ELSE b

Records == [product_id : FieldValues, promotion_id : FieldValues]

NoDoc == [product_id |-> Absent, promotion_id |-> Absent]

\* A value json.dumps rejects with TypeError (a set, bytes, an object).
NotJson == "<not-json>"

\* json.dumps(meta) and json.dumps(doc) both return.
Serializable(doc) == doc.product_id # NotJson /\ doc.promotion_id # NotJson

AllSerializable(actions) ==
    \A i \in 1..Len(actions) : Serializable(actions[i])

----------------------------------------------------------------------------
(* make_bulk_lines *)

\* json.dumps(meta): {"index": {"_index": index_name[, "_id": doc_id]}}
ActionLine(index_name, has_id, doc_id) ==
    [kind |-> "action", _index |-> index_name, has_id |-> has_id,
     _id |-> IF has_id THEN doc_id ELSE Absent, doc |-> NoDoc]

\* json.dumps(doc)
BodyLine(doc) ==
    [kind |-> "body", _index |-> "", has_id |-> FALSE, _id |-> Absent,
     doc |-> doc]

\* Faulty variant: the action line never carries _id.
MutDocLinesNoId(doc, index_name) ==
    <<ActionLine(index_name, FALSE, Absent), BodyLine(doc)>>

\* Faulty variant: promotion_id is looked at before product_id.
MutDocLinesPromotionFirst(doc, index_name) ==
    LET doc_id == PyOr(doc.promotion_id, doc.product_id)
    IN  <<ActionLine(index_name, Truthy(doc_id), doc_id), BodyLine(doc)>>

\* The two lines one iteration of the for-loop yields.
DocLines(doc, index_name) ==
    LET doc_id == PyOr(doc.product_id, doc.promotion_id)
    IN  <<ActionLine(index_name, Truthy(doc_id), doc_id), BodyLine(doc)>>

RECURSIVE make_bulk_lines(_, _)
make_bulk_lines(actions, index_name) ==
    IF actions = <<>> THEN <<>>
    ELSE DocLines(Head(actions), index_name)
             \o make_bulk_lines(Tail(actions), index_name)

----------------------------------------------------------------------------
(* chunked *)

\* Faulty variant: > for >=.
MutChunkFullStrict(chunk, size) == Len(chunk) > size * 2

\* The test that closes a chunk: len(chunk) >= size * 2.
ChunkFull(chunk, size) == Len(chunk) >= size * 2

\* The generator, from line i on, with `chunk` being filled and `out` the
\* batches yielded so far; the trailing `if chunk: yield chunk` ends it.
RECURSIVE ChunkedFrom(_, _, _, _, _)
ChunkedFrom(lines, size, i, chunk, out) ==
    IF i > Len(lines)
    THEN IF chunk # <<>> THEN Append(out, chunk) ELSE out
    ELSE LET c == Append(chunk, lines[i])
         IN  IF ChunkFull(c, size)
             THEN ChunkedFrom(lines, size, i + 1, <<>>, Append(out, c))
             ELSE ChunkedFrom(lines, size, i + 1, c, out)

chunked(lines, size) == ChunkedFrom(lines, size, 1, <<>>, <<>>)

----------------------------------------------------------------------------
(* The sink behind send_bulk: the _bulk endpoint *)

\* One entry of the response's "items": {op: {"error": error}}, where the
\* empty error stands for an outcome without (or with an empty) error detail.
Outcomes ==
    { [op |-> "index",  error |-> ""],
      [op |-> "index",  error |-> "mapper_parsing_exception"],
      [op |-> "create", error |-> "version_conflict"] }

\* The documents of a request body: an action line directly followed by a
\* body line.
PairAt(batch, i) ==
    /\ i < Len(batch)
    /\ batch[i].kind = "action"
    /\ batch[i + 1].kind = "body"

NPairs(batch) == Cardinality({i \in 1..Len(batch) : PairAt(batch, i)})

\* Every decoded response body the endpoint may give to a 2xx request:
\* without "items", or with one outcome per document of the request (for a
\* request without documents the two read the same: result.get("items", [])).
Responses(batch) ==
    {[has_items |-> FALSE, items |-> <<>>]}
        \cup IF NPairs(batch) = 0 THEN {}
             ELSE {[has_items |-> TRUE, items |-> it] :
                      it \in [1..NPairs(batch) -> Outcomes]}

\* The responses of a sink that accepts and stores every document.
StoringResponses(batch) ==
    {[has_items |-> NPairs(batch) > 0,
      items |-> [j \in 1..NPairs(batch) |-> [op |-> "index", error |-> ""]]]}

DocKey(index_name, kind, id, n) == <<index_name, kind, id, n>>

\* The sink stores document j of the request unless it reports an error for
\* it: under (_index, _id) when the action line has an _id, under an id of
\* its own making otherwise.
RECURSIVE Store(_, _, _, _, _)
Store(batch, result, i, j, st) ==
    IF i >= Len(batch) THEN st
    ELSE IF PairAt(batch, i)
    THEN LET a  == batch[i]
             ok == (~result.has_items) \/ result.items[j].error = ""
             st2 == IF ~ok THEN st
                    ELSE IF a.has_id
                    THEN [keys |-> st.keys \cup
                                     {DocKey(a._index, "given", a._id, 0)},
                          auto |-> st.auto]
                    ELSE [keys |-> st.keys \cup
                                     {DocKey(a._index, "auto", "", st.auto + 1)},
                          auto |-> st.auto + 1]
         IN  Store(batch, result, i + 2, j + 1, st2)
    ELSE Store(batch, result, i + 1, j, st)

----------------------------------------------------------------------------
(* import_documents *)

NoExit == "<none>"

SeqsUpTo(S, n) == UNION {[1..k -> S] : k \in 0..n}

\* The Records a run's dataset is made of: a product with its product_id,
\* a promotion with its promotion_id, and a Record without identity.
ProductRecords ==
    { [product_id |-> "p1",   promotion_id |-> Absent],
      [product_id |-> Absent, promotion_id |-> Absent] }

PromotionRecords ==
    { [product_id |-> Absent, promotion_id |-> "q1"],
      [product_id |-> Absent, promotion_id |-> Absent] }

\* A missing "products" or "promotions" key is the empty sequence
\* (dataset.get(key, [])).
Datasets ==
    [products   : SeqsUpTo(ProductRecords, MaxProducts),
     promotions : SeqsUpTo(PromotionRecords, MaxPromotions)]

\* Faulty variant: skip_promotions is not looked at.
MutPromotionsIgnoreSkip == dataset.promotions

\* promotions = dataset.get("promotions", []) if not skip_promotions else []
Promotions == IF ~skip_promotions THEN dataset.promotions ELSE <<>>

RunInit ==
    /\ dataset \in Datasets
    /\ chunk_size \in ChunkSizes
    /\ skip_promotions \in BOOLEAN
    /\ pc = "EncodingProducts"
    /\ product_lines = <<>>
    /\ promotion_lines = <<>>
    /\ cursor = 0
    /\ batches_sent = 0
    /\ errors = <<>>
    /\ failed = <<>>
    /\ output = <<>>
    /\ exit_msg = NoExit
    /\ posted = <<>>
    /\ delivered = <<>>
    /\ answers = <<>>
    /\ sink = {}
    /\ auto_ids = 0
    /\ run = 1
    /\ sink_before = {}
    /\ first_run = "running"

\* Line 125.
EncodeProducts ==
    /\ pc = "EncodingProducts"
    /\ AllSerializable(dataset.products)
    /\ product_lines' = make_bulk_lines(dataset.products, DEFAULT_PRODUCTS_INDEX)
    /\ pc' = "EncodingPromotions"
    /\ UNCHANGED <<dataset, chunk_size, skip_promotions, promotion_lines,
                   cursor, batches_sent, errors, failed, output, exit_msg,
                   posted, delivered, answers, sink, auto_ids, run,
                   sink_before, first_run,
                   encVars, chVars, mainVars, mcpVars>>

\* Lines 126-129.
EncodePromotions ==
    /\ pc = "EncodingPromotions"
    /\ AllSerializable(Promotions)
    /\ promotion_lines' =
           IF Promotions # <<>>
           THEN make_bulk_lines(Promotions, DEFAULT_PROMOTIONS_INDEX)
           ELSE <<>>
    /\ batches_sent' = 0
    /\ errors' = <<>>
    /\ cursor' = 0
    /\ pc' = "BatchingProducts"
    /\ UNCHANGED <<dataset, chunk_size, skip_promotions, product_lines,
                   failed, output, exit_msg, posted, delivered, answers, sink,
                   auto_ids, run, sink_before, first_run,
                   encVars, chVars, mainVars, mcpVars>>

\* Faulty variant: the promotions loop comes first.
MutBatchesPromotionsFirst ==
    IF pc = "BatchingProducts" THEN chunked(promotion_lines, chunk_size)
    ELSE IF pc = "BatchingPromotions" THEN chunked(product_lines, chunk_size)
    ELSE <<>>

\* Faulty variant: one Batcher over the lines of both collections.
MutBatchesOneStream ==
    IF pc = "BatchingProducts"
    THEN chunked(product_lines \o promotion_lines, chunk_size)
    ELSE <<>>

\* The batches of the for-loop the run is in, and the one it takes next.
Batches ==
    IF pc = "BatchingProducts" THEN chunked(product_lines, chunk_size)
    ELSE IF pc = "BatchingPromotions" THEN chunked(promotion_lines, chunk_size)
    ELSE <<>>

HasBatch == cursor < Len(Batches)

Batch == Batches[cursor + 1]

\* The 2xx responses the endpoint may give to the batch taken next.
BatchResponses == IF HasBatch THEN Responses(Batch) ELSE {}

\* What ending here means for the first run.
Ended(how) == IF run = 1 THEN how ELSE first_run

\* result.get("items", [])
ItemsOf(result) == IF result.has_items THEN result.items ELSE <<>>

\* Faulty variant: result["items"], a KeyError when the field is missing.
MutLoopBodyMissingItemsRaises(result) ==
    /\ posted' = Append(posted, Batch)
    /\ delivered' = Append(delivered, Batch)
    /\ answers' = Append(answers, result)
    /\ LET st == Store(Batch, result, 1, 1, [keys |-> sink, auto |-> auto_ids])
       IN  sink' = st.keys /\ auto_ids' = st.auto
    /\ batches_sent' = batches_sent + 1
    /\ errors' = errors \o result.items
    /\ cursor' = cursor + 1
    /\ pc' = IF result.has_items THEN pc ELSE "Aborted"
    /\ exit_msg' = IF result.has_items THEN exit_msg ELSE "KeyError: 'items'"
    /\ UNCHANGED <<dataset, chunk_size, skip_promotions, product_lines,
                   promotion_lines, failed, output, run,
                   sink_before, first_run,
                   encVars, chVars, mainVars, mcpVars>>

\* Faulty variant: batches_sent counts documents, not requests.
MutLoopBodyCountsDocs(result) ==
    /\ posted' = Append(posted, Batch)
    /\ delivered' = Append(delivered, Batch)
    /\ answers' = Append(answers, result)
    /\ LET st == Store(Batch, result, 1, 1, [keys |-> sink, auto |-> auto_ids])
       IN  sink' = st.keys /\ auto_ids' = st.auto
    /\ batches_sent' = batches_sent + NPairs(Batch)
    /\ errors' = errors \o result.items
    /\ cursor' = cursor + 1
    /\ UNCHANGED <<dataset, chunk_size, skip_promotions, pc, product_lines,
                   promotion_lines, failed, output, exit_msg, run,
                   sink_before, first_run,
                   encVars, chVars, mainVars, mcpVars>>

\* Faulty variant: an item with an error ends the run.
MutLoopBodyRaisesOnItemError(result) ==
    /\ posted' = Append(posted, Batch)
    /\ delivered' = Append(delivered, Batch)
    /\ answers' = Append(answers, result)
    /\ LET st == Store(Batch, result, 1, 1, [keys |-> sink, auto |-> auto_ids])
       IN  sink' = st.keys /\ auto_ids' = st.auto
    /\ batches_sent' = batches_sent + 1
    /\ errors' = errors \o result.items
    /\ cursor' = cursor + 1
    /\ pc' = IF \E j \in 1..Len(result.items) : result.items[j].error # ""
             THEN "Aborted" ELSE pc
    /\ exit_msg' = IF pc' = "Aborted" THEN "Bulk item failed" ELSE exit_msg
    /\ UNCHANGED <<dataset, chunk_size, skip_promotions, product_lines,
                   promotion_lines, failed, output, run,
                   sink_before, first_run,
                   encVars, chVars, mainVars, mcpVars>>

\* One iteration of a for-loop whose send_bulk returns `result`:
\* lines 132-134 and 137-139.
LoopBody(result) ==
    /\ posted' = Append(posted, Batch)
    /\ delivered' = Append(delivered, Batch)
    /\ answers' = Append(answers, result)
    /\ LET st == Store(Batch, result, 1, 1, [keys |-> sink, auto |-> auto_ids])
       IN  sink' = st.keys /\ auto_ids' = st.auto
    /\ batches_sent' = batches_sent + 1
    /\ errors' = errors \o ItemsOf(result)
    /\ cursor' = cursor + 1
    /\ UNCHANGED <<dataset, chunk_size, skip_promotions, pc, product_lines,
                   promotion_lines, failed, output, exit_msg, run,
                   sink_before, first_run,
                   encVars, chVars, mainVars, mcpVars>>

\* Faulty variant: the failure is swallowed and the loop goes on.
MutLoopRaisesSwallowed(message) ==
    /\ posted' = Append(posted, Batch)
    /\ cursor' = cursor + 1
    /\ UNCHANGED <<dataset, chunk_size, skip_promotions, pc, product_lines,
                   promotion_lines, batches_sent, errors, failed, output,
                   exit_msg, delivered, answers, sink, auto_ids, run,
                   sink_before, first_run,
                   encVars, chVars, mainVars, mcpVars>>

\* send_bulk does not return: the request is made and the exception ends the
\* process with `message`; nothing after line 132 (137) runs.
LoopRaises(message) ==
    /\ posted' = Append(posted, Batch)
    /\ exit_msg' = message
    /\ pc' = "Aborted"
    /\ first_run' = Ended("aborted")
    /\ UNCHANGED <<dataset, chunk_size, skip_promotions, product_lines,
                   promotion_lines, cursor, batches_sent, errors, failed,
                   output, delivered, answers, sink, auto_ids, run,
                   sink_before,
                   encVars, chVars, mainVars, mcpVars>>

\* Lines 131-134, send_bulk returning response.json().
SendProductsBatch(result) ==
    /\ pc = "BatchingProducts"
    /\ HasBatch
    /\ LoopBody(result)

\* Lines 114-116: raise_for_status() raises HTTPError on a non-2xx status.
SendProductsHttpError ==
    /\ pc = "BatchingProducts"
    /\ HasBatch
    /\ LoopRaises("Bulk request failed")

\* Lines 112, 171-172: requests.post raises on a connection failure or a
\* timeout, and __main__ turns the RequestException into SystemExit.
SendProductsNetworkError ==
    /\ pc = "BatchingProducts"
    /\ HasBatch
    /\ LoopRaises("Network error during import")

\* The products for-loop is exhausted: on to line 136.
EndProducts ==
    /\ pc = "BatchingProducts"
    /\ ~HasBatch
    /\ pc' = "BatchingPromotions"
    /\ cursor' = 0
    /\ UNCHANGED <<dataset, chunk_size, skip_promotions, product_lines,
                   promotion_lines, batches_sent, errors, failed, output,
                   exit_msg, posted, delivered, answers, sink, auto_ids, run,
                   sink_before, first_run,
                   encVars, chVars, mainVars, mcpVars>>

\* Lines 136-139.
SendPromotionsBatch(result) ==
    /\ pc = "BatchingPromotions"
    /\ HasBatch
    /\ LoopBody(result)

SendPromotionsHttpError ==
    /\ pc = "BatchingPromotions"
    /\ HasBatch
    /\ LoopRaises("Bulk request failed")

SendPromotionsNetworkError ==
    /\ pc = "BatchingPromotions"
    /\ HasBatch
    /\ LoopRaises("Network error during import")

\* The promotions for-loop is exhausted: on to line 141.
EndPromotions ==
    /\ pc = "BatchingPromotions"
    /\ ~HasBatch
    /\ pc' = "Summarizing"
    /\ cursor' = 0
    /\ UNCHANGED <<dataset, chunk_size, skip_promotions, product_lines,
                   promotion_lines, batches_sent, errors, failed, output,
                   exit_msg, posted, delivered, answers, sink, auto_ids, run,
                   sink_before, first_run,
                   encVars, chVars, mainVars, mcpVars>>

\* Faulty variant: an error under any operation key counts.
MutIsFailedAnyOp(item) == item.error # ""

\* item.get("index", {}).get("error")
IsFailed(item) == item.op = "index" /\ item.error # ""

Failed(items) == SelectSeq(items, IsFailed)

\* Faulty variant: the sample is the whole failed list.
MutFirstNWhole(s, n) == s

\* failed[:5]
FirstN(s, n) == SubSeq(s, 1, IF Len(s) < n THEN Len(s) ELSE n)

SampleSize == 5

Line(msg, n, items) == [msg |-> msg, n |-> n, items |-> items]

\* Lines 141-147.
Summarize ==
    /\ pc = "Summarizing"
    /\ failed' = Failed(errors)
    /\ output' =
         output
           \o <<Line("Bulk import finished. Batches sent:", batches_sent, <<>>)>>
           \o (IF failed' # <<>>
               THEN <<Line("Documents with errors:", Len(failed'), <<>>),
                      Line("sample", 0, FirstN(failed', SampleSize))>>
               ELSE <<Line("All documents indexed without reported errors.",
                           0, <<>>)>>)
    /\ pc' = "Done"
    /\ first_run' = Ended("done")
    /\ UNCHANGED <<dataset, chunk_size, skip_promotions, product_lines,
                   promotion_lines, cursor, batches_sent, errors, exit_msg,
                   posted, delivered, answers, sink, auto_ids, run,
                   sink_before,
                   encVars, chVars, mainVars, mcpVars>>

RunNext ==
    \/ EncodeProducts
    \/ EncodePromotions
    \/ \E result \in BatchResponses : SendProductsBatch(result)
    \/ SendProductsHttpError
    \/ SendProductsNetworkError
    \/ EndProducts
    \/ \E result \in BatchResponses : SendPromotionsBatch(result)
    \/ SendPromotionsHttpError
    \/ SendPromotionsNetworkError
    \/ EndPromotions
    \/ Summarize

\* The program is started again on the same dataset with the same
\* arguments, against the same sink: main() from the top.
Rerun ==
    /\ pc \in {"Done", "Aborted"}
    /\ run < MaxRuns
    /\ run' = run + 1
    /\ sink_before' = sink
    /\ pc' = "EncodingProducts"
    /\ product_lines' = <<>>
    /\ promotion_lines' = <<>>
    /\ cursor' = 0
    /\ batches_sent' = 0
    /\ errors' = <<>>
    /\ failed' = <<>>
    /\ output' = <<>>
    /\ exit_msg' = NoExit
    /\ posted' = <<>>
    /\ delivered' = <<>>
    /\ answers' = <<>>
    /\ UNCHANGED <<dataset, chunk_size, skip_promotions, sink, auto_ids,
                   first_run,
                   encVars, chVars, mainVars, mcpVars>>

\* The 2xx responses of a sink that stores every document it is sent.
StoringBatchResponses == IF HasBatch THEN StoringResponses(Batch) ELSE {}

RerunNext ==
    \/ EncodeProducts
    \/ EncodePromotions
    \/ \E result \in StoringBatchResponses : SendProductsBatch(result)
    \/ SendProductsHttpError
    \/ SendProductsNetworkError
    \/ EndProducts
    \/ \E result \in StoringBatchResponses : SendPromotionsBatch(result)
    \/ SendPromotionsHttpError
    \/ SendPromotionsNetworkError
    \/ EndPromotions
    \/ Summarize
    \/ Rerun

----------------------------------------------------------------------------
(* main: the pre-flight before import_documents *)

\* The state of import_documents' locals and of the world before a run.
RunFresh ==
    /\ product_lines = <<>>
    /\ promotion_lines = <<>>
    /\ cursor = 0
    /\ batches_sent = 0
    /\ errors = <<>>
    /\ failed = <<>>
    /\ output = <<>>
    /\ exit_msg = NoExit
    /\ posted = <<>>
    /\ delivered = <<>>
    /\ answers = <<>>
    /\ sink = {}
    /\ auto_ids = 0
    /\ run = 1
    /\ sink_before = {}
    /\ first_run = "running"

\* --dataset-path names a file that parses, no file, or a file that is not
\* JSON; --api-key / ELASTIC_API_KEY is unset (None), empty or set.
DatasetFiles == {"ok", "missing", "invalid"}

ApiKeys == {Absent, "", "key"}

PreflightInit ==
    /\ dataset_file \in DatasetFiles
    /\ api_key \in ApiKeys
    /\ dataset \in IF dataset_file = "ok" THEN Datasets
                   ELSE {[products |-> <<>>, promotions |-> <<>>]}
    /\ chunk_size \in ChunkSizes
    /\ skip_promotions \in BOOLEAN
    /\ pc = "Main"
    /\ RunFresh

\* The process ends with SystemExit(message) before import_documents.
Exits(message) ==
    /\ pc' = "Exited"
    /\ exit_msg' = message
    /\ first_run' = Ended("aborted")
    /\ UNCHANGED <<dataset, chunk_size, skip_promotions, product_lines,
                   promotion_lines, cursor, batches_sent, errors, failed,
                   output, posted, delivered, answers, sink, auto_ids, run,
                   sink_before,
                   encVars, chVars, mainVars, mcpVars>>

\* Moves on to `position` with nothing else changed.
GoesTo(position) ==
    /\ pc' = position
    /\ UNCHANGED <<dataset, chunk_size, skip_promotions, product_lines,
                   promotion_lines, cursor, batches_sent, errors, failed,
                   output, exit_msg, posted, delivered, answers, sink,
                   auto_ids, run, sink_before, first_run,
                   encVars, chVars, mainVars, mcpVars>>

\* Lines 152, 77: load_dataset returns the parsed file.
LoadDataset ==
    /\ pc = "Main"
    /\ dataset_file = "ok"
    /\ GoesTo("CheckApiKey")

\* Lines 78-79.
DatasetNotFound ==
    /\ pc = "Main"
    /\ dataset_file = "missing"
    /\ Exits("Dataset file not found")

\* Lines 80-81.
DatasetInvalid ==
    /\ pc = "Main"
    /\ dataset_file = "invalid"
    /\ Exits("Invalid JSON in dataset file")

\* Line 153, the key is there: on to import_documents (line 156).
ApiKeyGiven ==
    /\ pc = "CheckApiKey"
    /\ Truthy(api_key)
    /\ GoesTo("EncodingProducts")

\* Faulty variant: the run goes on without a key.
MutApiKeyNotChecked ==
    /\ pc = "CheckApiKey"
    /\ ~Truthy(api_key)
    /\ GoesTo("EncodingProducts")

\* Lines 153-154.
ApiKeyRequired ==
    /\ pc = "CheckApiKey"
    /\ ~Truthy(api_key)
    /\ Exits("API key is required")

MainNext ==
    \/ LoadDataset
    \/ DatasetNotFound
    \/ DatasetInvalid
    \/ ApiKeyGiven
    \/ ApiKeyRequired
    \/ EncodeProducts
    \/ EncodePromotions
    \/ \E result \in BatchResponses : SendProductsBatch(result)
    \/ SendProductsHttpError
    \/ SendProductsNetworkError
    \/ EndProducts
    \/ \E result \in BatchResponses : SendPromotionsBatch(result)
    \/ SendPromotionsHttpError
    \/ SendPromotionsNetworkError
    \/ EndPromotions
    \/ Summarize

----------------------------------------------------------------------------
(* import_documents called with Records json.dumps may reject *)

SerialProductRecords ==
    ProductRecords \cup {[product_id |-> NotJson, promotion_id |-> Absent]}

SerialPromotionRecords ==
    PromotionRecords \cup {[product_id |-> Absent, promotion_id |-> NotJson]}

SerialDatasets ==
    [products   : SeqsUpTo(SerialProductRecords, MaxProducts),
     promotions : SeqsUpTo(SerialPromotionRecords, MaxPromotions)]

SerialStart ==
    /\ dataset \in SerialDatasets
    /\ chunk_size \in ChunkSizes
    /\ skip_promotions \in BOOLEAN
    /\ pc = "EncodingProducts"
    /\ RunFresh

\* json.dumps raises inside list(make_bulk_lines(...)): the TypeError is
\* caught nowhere and ends the process; the assignment does not happen.
EncodeRaises ==
    /\ exit_msg' = "TypeError"
    /\ pc' = "Aborted"
    /\ first_run' = Ended("aborted")
    /\ UNCHANGED <<dataset, chunk_size, skip_promotions, product_lines,
                   promotion_lines, cursor, batches_sent, errors, failed,
                   output, posted, delivered, answers, sink, auto_ids, run,
                   sink_before,
                   encVars, chVars, mainVars, mcpVars>>

\* Line 125 raising.
EncodeProductsRaises ==
    /\ pc = "EncodingProducts"
    /\ ~AllSerializable(dataset.products)
    /\ EncodeRaises

\* Faulty variant: the promotions are encoded when their loop starts, so
\* the products are sent first.
MutEncodePromotionsDeferred ==
    /\ pc = "EncodingPromotions"
    /\ ~AllSerializable(Promotions)
    /\ batches_sent' = 0
    /\ errors' = <<>>
    /\ cursor' = 0
    /\ pc' = "BatchingProducts"
    /\ UNCHANGED <<dataset, chunk_size, skip_promotions, product_lines,
                   promotion_lines, failed, output, exit_msg, posted,
                   delivered, answers, sink, auto_ids, run, sink_before,
                   first_run,
                   encVars, chVars, mainVars, mcpVars>>

\* Line 126 raising.
EncodePromotionsRaises ==
    /\ pc = "EncodingPromotions"
    /\ ~AllSerializable(Promotions)
    /\ EncodeRaises

SerialNext ==
    \/ EncodeProducts
    \/ EncodeProductsRaises
    \/ EncodePromotions
    \/ EncodePromotionsRaises
    \/ \E result \in BatchResponses : SendProductsBatch(result)
    \/ SendProductsHttpError
    \/ SendProductsNetworkError
    \/ EndProducts
    \/ \E result \in BatchResponses : SendPromotionsBatch(result)
    \/ SendPromotionsHttpError
    \/ SendPromotionsNetworkError
    \/ EndPromotions
    \/ Summarize

----------------------------------------------------------------------------
(* test_mcp_connection.py: parse_tool_specs and main *)

MaxToolArgs == 2

ToolSpec(name, args) == [name |-> name, args |-> args]

DEFAULT_CANDIDATE_TOOLS ==
    << ToolSpec("healthy_basket_products", "show budget friendly products"),
       ToolSpec("healthy_basket_promotions", "current promotions") >>

\* One --tool argument, split as raw.split("=", 1) splits it: the name, whether
\* there is an "=", and the text after it.
RawSpec(name, eq, part) == [name |-> name, eq |-> eq, part |-> part]

\* "t1", "" (blank), "t2={}", "t2=k:v", "t3=x" (neither JSON nor key:value)
\* and "t4=1" (JSON, but not an object).
RawSpecs ==
    { RawSpec("t1", FALSE, ""), RawSpec("", FALSE, ""),
      RawSpec("t2", TRUE, "{}"), RawSpec("t2", TRUE, "k:v"),
      RawSpec("t3", TRUE, "x"), RawSpec("t4", TRUE, "1") }

\* Lines 114-135 for one raw spec: skipped, a call, SystemExit ("invalid")
\* or the ValueError that no except clause catches ("crash").
ParseOne(raw) ==
    IF ~raw.eq
    THEN IF raw.name = ""
         THEN [kind |-> "skip", name |-> "", args |-> ""]
         ELSE [kind |-> "call", name |-> raw.name, args |-> "{}"]
    ELSE CASE raw.part = ""    -> [kind |-> "call", name |-> raw.name, args |-> "{}"]
           [] raw.part = "{}"  -> [kind |-> "call", name |-> raw.name, args |-> "{}"]
           [] raw.part = "1"   -> [kind |-> "crash", name |-> raw.name, args |-> ""]
           [] raw.part = "k:v" -> [kind |-> "call", name |-> raw.name, args |-> "{k: v}"]
           [] OTHER            -> [kind |-> "invalid", name |-> raw.name, args |-> ""]

RECURSIVE ParseFrom(_, _)
ParseFrom(specs, parsed) ==
    IF specs = <<>> THEN [status |-> "ok", parsed |-> parsed]
    ELSE LET one == ParseOne(Head(specs))
         IN  CASE one.kind = "skip" -> ParseFrom(Tail(specs), parsed)
               [] one.kind = "call" ->
                    ParseFrom(Tail(specs),
                              Append(parsed, ToolSpec(one.name, one.args)))
               [] OTHER -> [status |-> one.kind, parsed |-> parsed]

parse_tool_specs(specs) == ParseFrom(specs, <<>>)

\* Lines 196-205; `available` empty is available_names = None.
RECURSIVE DefaultsFrom(_, _, _)
DefaultsFrom(candidates, available, seen) ==
    IF candidates = <<>> THEN <<>>
    ELSE LET c == Head(candidates)
         IN  IF (available # {} /\ c.name \notin available) \/ c.name \in seen
             THEN DefaultsFrom(Tail(candidates), available, seen)
             ELSE <<c>> \o DefaultsFrom(Tail(candidates), available,
                                        seen \cup {c.name})

default_calls ==
    IF ~m_args.skip_default_tools
    THEN DefaultsFrom(DEFAULT_CANDIDATE_TOOLS, m_available, {})
    ELSE <<>>

\* The tools of a tools/list result, by name; the empty set also stands
\* for a result without a "tools" list.
ToolLists ==
    { {}, {"other"}, {"healthy_basket_products"},
      {"healthy_basket_products", "healthy_basket_promotions"} }

McpArgs ==
    [api_key : {"", "key"}, show_tools : BOOLEAN, verbose : BOOLEAN,
     skip_default_tools : BOOLEAN, tool : SeqsUpTo(RawSpecs, MaxToolArgs)]

McpStart ==
    /\ m_args \in McpArgs
    /\ m_pc = "Start"
    /\ m_requests = <<>>
    /\ m_replies = <<>>
    /\ m_available = {}
    /\ m_queue = <<>>
    /\ m_idx = 0
    /\ m_out = <<>>
    /\ m_exit = NoExit

Request(method, rid, name, args) ==
    [method |-> method, rid |-> rid, name |-> name, args |-> args]

\* rpc(): the request is made and answered, well or not.
Rpc(request, reply) ==
    /\ m_requests' = Append(m_requests, request)
    /\ m_replies' = Append(m_replies, reply)

\* raise SystemExit(message), or an exception nothing catches.
McpExits(message) ==
    /\ m_exit' = message
    /\ m_pc' = "Exited"

\* Lines 143-144.
McpApiKeyRequired ==
    /\ m_pc = "Start"
    /\ ~Truthy(m_args.api_key)
    /\ McpExits("API key is required")
    /\ UNCHANGED <<m_args, m_requests, m_replies, m_available, m_queue,
                   m_idx, m_out,
                   runVars, encVars, chVars, mainVars>>

\* Lines 146-159.
Initialize ==
    /\ m_pc = "Start"
    /\ Truthy(m_args.api_key)
    /\ Rpc(Request("initialize", 1, "", ""), "ok")
    /\ m_out' = Append(m_out, "Initialization succeeded.")
    /\ m_pc' = "Initialized"
    /\ UNCHANGED <<m_args, m_available, m_queue, m_idx, m_exit,
                   runVars, encVars, chVars, mainVars>>

\* Faulty variant: the exception of initialize is swallowed.
MutInitializeFailsIgnored ==
    /\ m_pc = "Start"
    /\ Truthy(m_args.api_key)
    /\ Rpc(Request("initialize", 1, "", ""), "failed")
    /\ m_pc' = "Initialized"
    /\ UNCHANGED <<m_args, m_available, m_queue, m_idx, m_out, m_exit,
                   runVars, encVars, chVars, mainVars>>

\* Lines 146-161, rpc raising.
InitializeFails ==
    /\ m_pc = "Start"
    /\ Truthy(m_args.api_key)
    /\ Rpc(Request("initialize", 1, "", ""), "failed")
    /\ McpExits("Initialization failed")
    /\ UNCHANGED <<m_args, m_available, m_queue, m_idx, m_out,
                   runVars, encVars, chVars, mainVars>>

\* Line 164.
fetch_tool_metadata ==
    m_args.show_tools \/ m_args.verbose \/ ~m_args.skip_default_tools

\* Lines 165-184.
ListTools(tools) ==
    /\ m_pc = "Initialized"
    /\ fetch_tool_metadata
    /\ Rpc(Request("tools/list", 2, "", ""), "ok")
    /\ m_available' = tools
    /\ m_out' = m_out \o (IF m_args.verbose
                           THEN <<"Raw tools/list response:">> ELSE <<>>)
    /\ m_pc' = "Listed"
    /\ UNCHANGED <<m_args, m_queue, m_idx, m_exit,
                   runVars, encVars, chVars, mainVars>>

\* Lines 166-176, rpc raising.
ListToolsFails ==
    /\ m_pc = "Initialized"
    /\ fetch_tool_metadata
    /\ Rpc(Request("tools/list", 2, "", ""), "failed")
    /\ McpExits("tools/list failed")
    /\ UNCHANGED <<m_args, m_available, m_queue, m_idx, m_out,
                   runVars, encVars, chVars, mainVars>>

\* Line 165, the condition false.
SkipListTools ==
    /\ m_pc = "Initialized"
    /\ ~fetch_tool_metadata
    /\ m_pc' = "Listed"
    /\ UNCHANGED <<m_args, m_requests, m_replies, m_available, m_queue,
                   m_idx, m_out, m_exit,
                   runVars, encVars, chVars, mainVars>>

\* What lines 186-207 print.
ToolsReport ==
    (IF m_args.show_tools
     THEN IF m_available # {} THEN <<"Discovered tool(s):">>
          ELSE <<"tools/list returned no tool metadata.">>
     ELSE <<>>)
    \o (IF ~m_args.skip_default_tools /\ default_calls = <<>>
            /\ m_available # {}
         THEN <<"No healthy-basket tools detected in tools/list; skipping default calls.">>
         ELSE <<>>)

\* Lines 186-209.
QueueTools ==
    /\ m_pc = "Listed"
    /\ parse_tool_specs(m_args.tool).status = "ok"
    /\ m_out' = m_out \o ToolsReport
    /\ m_queue' = default_calls \o parse_tool_specs(m_args.tool).parsed
    /\ m_idx' = 0
    /\ m_pc' = "Queued"
    /\ UNCHANGED <<m_args, m_requests, m_replies, m_available, m_exit,
                   runVars, encVars, chVars, mainVars>>

\* Line 209 with parse_tool_specs raising SystemExit (line 132).
ToolArgumentsInvalid ==
    /\ m_pc = "Listed"
    /\ parse_tool_specs(m_args.tool).status = "invalid"
    /\ m_out' = m_out \o ToolsReport
    /\ McpExits("Invalid arguments for tool")
    /\ UNCHANGED <<m_args, m_requests, m_replies, m_available, m_queue,
                   m_idx,
                   runVars, encVars, chVars, mainVars>>

\* Line 209 with the ValueError of line 127, which nothing catches.
ToolArgumentsNotObject ==
    /\ m_pc = "Listed"
    /\ parse_tool_specs(m_args.tool).status = "crash"
    /\ m_out' = m_out \o ToolsReport
    /\ McpExits("ValueError")
    /\ UNCHANGED <<m_args, m_requests, m_replies, m_available, m_queue,
                   m_idx,
                   runVars, encVars, chVars, mainVars>>

\* Lines 211-214.
NoToolCallsQueued ==
    /\ m_pc = "Queued"
    /\ m_queue = <<>>
    /\ m_out' = m_out \o <<"No tool calls queued.",
                            "MCP connectivity checks completed.">>
    /\ m_pc' = "Done"
    /\ UNCHANGED <<m_args, m_requests, m_replies, m_available, m_queue,
                   m_idx, m_exit,
                   runVars, encVars, chVars, mainVars>>

\* Lines 216-235, rpc returning.
CallTool ==
    /\ m_pc = "Queued"
    /\ m_idx < Len(m_queue)
    /\ m_idx' = m_idx + 1
    /\ Rpc(Request("tools/call", 100 + m_idx', m_queue[m_idx'].name,
                   m_queue[m_idx'].args), "ok")
    /\ m_out' = m_out \o <<"Calling tool",
                            IF m_args.verbose THEN "result" ELSE "Success.">>
    /\ UNCHANGED <<m_args, m_pc, m_available, m_queue, m_exit,
                   runVars, encVars, chVars, mainVars>>

\* Faulty variant: break instead of continue.
MutCallToolFailsBreaks ==
    /\ m_pc = "Queued"
    /\ m_idx < Len(m_queue)
    /\ m_idx' = Len(m_queue)
    /\ Rpc(Request("tools/call", 100 + m_idx + 1, m_queue[m_idx + 1].name,
                   m_queue[m_idx + 1].args), "failed")
    /\ m_out' = m_out \o <<"Calling tool", "tools/call failed">>
    /\ UNCHANGED <<m_args, m_pc, m_available, m_queue, m_exit,
                   runVars, encVars, chVars, mainVars>>

\* Lines 216-229, rpc raising: the failure is printed and the loop goes on.
CallToolFails ==
    /\ m_pc = "Queued"
    /\ m_idx < Len(m_queue)
    /\ m_idx' = m_idx + 1
    /\ Rpc(Request("tools/call", 100 + m_idx', m_queue[m_idx'].name,
                   m_queue[m_idx'].args), "failed")
    /\ m_out' = m_out \o <<"Calling tool", "tools/call failed">>
    /\ UNCHANGED <<m_args, m_pc, m_available, m_queue, m_exit,
                   runVars, encVars, chVars, mainVars>>

\* Line 237, the loop over.
Completed ==
    /\ m_pc = "Queued"
    /\ m_queue # <<>>
    /\ m_idx = Len(m_queue)
    /\ m_out' = Append(m_out, "MCP connectivity checks completed.")
    /\ m_pc' = "Done"
    /\ UNCHANGED <<m_args, m_requests, m_replies, m_available, m_queue,
                   m_idx, m_exit,
                   runVars, encVars, chVars, mainVars>>

McpNext ==
    \/ McpApiKeyRequired
    \/ Initialize
    \/ InitializeFails
    \/ \E tools \in ToolLists : ListTools(tools)
    \/ ListToolsFails
    \/ SkipListTools
    \/ QueueTools
    \/ ToolArgumentsInvalid
    \/ ToolArgumentsNotObject
    \/ NoToolCallsQueued
    \/ CallTool
    \/ CallToolFails
    \/ Completed

----------------------------------------------------------------------------
(* The summary of import_documents applied on its own *)

MaxErrors == 6
MaxBatchesSent == 2

\* Line 141 onwards, with the loops behind: any number of batches sent and
\* any list of collected response items (none when nothing was sent).
SummaryStart ==
    /\ dataset = [products |-> <<>>, promotions |-> <<>>]
    /\ chunk_size = 1
    /\ skip_promotions = FALSE
    /\ pc = "Summarizing"
    /\ product_lines = <<>>
    /\ promotion_lines = <<>>
    /\ cursor = 0
    /\ batches_sent \in 0..MaxBatchesSent
    /\ errors \in IF batches_sent = 0 THEN {<<>>}
                  ELSE SeqsUpTo(Outcomes, MaxErrors)
    /\ failed = <<>>
    /\ output = <<>>
    /\ exit_msg = NoExit
    /\ posted = <<>>
    /\ delivered = <<>>
    /\ answers = <<>>
    /\ sink = {}
    /\ auto_ids = 0
    /\ run = 1
    /\ sink_before = {}
    /\ first_run = "running"

SummaryNext == Summarize

----------------------------------------------------------------------------
(* make_bulk_lines and chunked applied on their own *)

IndexNames == {DEFAULT_PRODUCTS_INDEX, DEFAULT_PROMOTIONS_INDEX}

EncInit ==
    /\ enc_doc \in Records
    /\ enc_index \in IndexNames
    /\ enc_out = <<>>
    /\ enc_done = FALSE

\* list(make_bulk_lines([doc], index_name))
EncodeOne ==
    /\ ~enc_done
    /\ enc_out' = make_bulk_lines(<<enc_doc>>, enc_index)
    /\ enc_done' = TRUE
    /\ UNCHANGED <<enc_doc, enc_index, runVars, chVars, mainVars, mcpVars>>

\* chunked takes any sequence: the lines here are plain strings.
LineAlphabet == {"a", "b"}

ChInit ==
    /\ ch_lines \in SeqsUpTo(LineAlphabet, MaxLines)
    /\ ch_size \in ChunkSizes
    /\ ch_out = <<>>
    /\ ch_done = FALSE

\* list(chunked(lines, size))
ChunkAll ==
    /\ ~ch_done
    /\ ch_out' = chunked(ch_lines, ch_size)
    /\ ch_done' = TRUE
    /\ UNCHANGED <<ch_lines, ch_size, runVars, encVars, mainVars, mcpVars>>

----------------------------------------------------------------------------
(* The specifications *)

EncIdle ==
    /\ enc_doc = NoDoc
    /\ enc_index = ""
    /\ enc_out = <<>>
    /\ enc_done = FALSE

ChIdle ==
    /\ ch_lines = <<>>
    /\ ch_size = 1
    /\ ch_out = <<>>
    /\ ch_done = FALSE

RunIdle ==
    /\ dataset = [products |-> <<>>, promotions |-> <<>>]
    /\ chunk_size = 1
    /\ skip_promotions = FALSE
    /\ pc = "Off"
    /\ product_lines = <<>>
    /\ promotion_lines = <<>>
    /\ cursor = 0
    /\ batches_sent = 0
    /\ errors = <<>>
    /\ failed = <<>>
    /\ output = <<>>
    /\ exit_msg = NoExit
    /\ posted = <<>>
    /\ delivered = <<>>
    /\ answers = <<>>
    /\ sink = {}
    /\ auto_ids = 0
    /\ run = 1
    /\ sink_before = {}
    /\ first_run = "running"

\* main() has loaded the dataset and found an API key.
MainPassed ==
    /\ dataset_file = "ok"
    /\ api_key = "key"

McpIdle ==
    /\ m_args = [api_key |-> "key", show_tools |-> FALSE, verbose |-> FALSE,
                 skip_default_tools |-> FALSE, tool |-> <<>>]
    /\ m_pc = "Off"
    /\ m_requests = <<>>
    /\ m_replies = <<>>
    /\ m_available = {}
    /\ m_queue = <<>>
    /\ m_idx = 0
    /\ m_out = <<>>
    /\ m_exit = NoExit

\* One run of import_documents; the sink answers as it likes.
Init == RunInit /\ EncIdle /\ ChIdle /\ MainPassed /\ McpIdle

Next == RunNext

Spec == Init /\ [][Next]_vars

\* Runs of the program one after the other against a sink that stores every
\* document it is sent.
SpecRerun == Init /\ [][RerunNext]_vars

\* main() from its first line: the pre-flight, then import_documents.
MainInit == PreflightInit /\ EncIdle /\ ChIdle /\ McpIdle

SpecMain == MainInit /\ [][MainNext]_vars

\* import_documents over datasets with Records that do not serialize.
SerialInit == SerialStart /\ EncIdle /\ ChIdle /\ MainPassed /\ McpIdle

SpecSerial == SerialInit /\ [][SerialNext]_vars

\* One run of the MCP connectivity test; the server answers as it likes.
McpInit == RunIdle /\ EncIdle /\ ChIdle /\ MainPassed /\ McpStart

SpecMcp == McpInit /\ [][McpNext]_vars

\* The summary alone, over every list of response items.
SummaryInit == SummaryStart /\ EncIdle /\ ChIdle /\ MainPassed /\ McpIdle

SpecSummary == SummaryInit /\ [][SummaryNext]_vars

\* make_bulk_lines applied to one Record.
EncoderInit == RunIdle /\ EncInit /\ ChIdle /\ MainPassed /\ McpIdle

EncoderNext == EncodeOne

SpecEncoder == EncoderInit /\ [][EncoderNext]_vars

\* chunked applied to one line sequence.
ChunkedInit == RunIdle /\ EncIdle /\ ChInit /\ MainPassed /\ McpIdle

ChunkedNext == ChunkAll

SpecChunked == ChunkedInit /\ [][ChunkedNext]_vars

----------------------------------------------------------------------------
(* Properties *)

RECURSIVE Concat(_)
Concat(seqs) == IF seqs = <<>> THEN <<>> ELSE Head(seqs) \o Concat(Tail(seqs))

Prefix(s, n) == SubSeq(s, 1, n)

Min(a, b) == IF a < b THEN a ELSE b

\* ceil(a / b) for a >= 0, b > 0
CeilDiv(a, b) == (a + b - 1) \div b

\* The batches the Batcher makes of the two collections, in order.
ProductBatches == chunked(product_lines, chunk_size)

PromotionBatches == chunked(promotion_lines, chunk_size)

AllBatches == ProductBatches \o PromotionBatches

\* Every per-item outcome the sink returned, in submission order.
AllItems == Concat([k \in 1..Len(answers) |-> answers[k].items])

\* An outcome with a non-empty error detail under the `index` key.
ErrorUnderIndex(item) == item.op = "index" /\ item.error # ""

TransportErrors == {"Bulk request failed", "Network error during import"}

\* C1: with chunk_size <= 0 the run raises a ConfigError before any Batch
\* is produced and before any Transport call: nothing is ever posted and no
\* summary is ever printed.
C1_ConfigErrorBeforeAnyBatch ==
    chunk_size <= 0 => (posted = <<>> /\ output = <<>> /\ pc # "Done")

\* C2: for c > 0 and L input lines, chunked yields ceil((L/2)/c) batches,
\* the k-th of min(2c, lines not yet emitted) lines, and the batches
\* concatenated in order are the input.
C2_ChunkedShape ==
    (ch_done /\ ch_size > 0) =>
        LET L == Len(ch_lines)
            c == ch_size
        IN  /\ Len(ch_out) = CeilDiv(L, 2 * c)
            /\ \A k \in 1..Len(ch_out) :
                   Len(ch_out[k]) = Min(2 * c, L - 2 * c * (k - 1))
            /\ Concat(ch_out) = ch_lines

\* chunked has cut 5 lines with c = 2 into a full batch and a partial one.
C2_Witness ==
    /\ ch_done
    /\ ch_size = 2
    /\ Len(ch_lines) = 5
    /\ Len(ch_out) = 2
    /\ Len(ch_out[2]) = 1

\* A batch of whole Records within the budget: an even number of lines, at
\* most 2 x chunk_size of them, every action line directly followed by the
\* body line of its Record.
WholeRecords(batch) ==
    /\ Len(batch) % 2 = 0
    /\ Len(batch) <= 2 * chunk_size
    /\ \A i \in 1..Len(batch) :
           /\ batch[i].kind = "action" =>
                  /\ i < Len(batch)
                  /\ batch[i + 1].kind = "body"
                  /\ batch[i] = DocLines(batch[i + 1].doc, batch[i]._index)[1]
           /\ batch[i].kind = "body" => (i > 1 /\ batch[i - 1].kind = "action")

\* C3: every Batch handed to Transport has an even number of lines, at most
\* 2 x chunk_size lines, and holds each Record's action line and body line
\* together.
C3_BatchesHoldWholeRecords ==
    \A k \in 1..Len(posted) : WholeRecords(posted[k])

\* None, the empty string and 0 are the empty values of an identity field.
NonEmpty(v) == v \notin {Absent, Null, "", Zero}

\* C4: make_bulk_lines emits exactly 2 lines per Record, the action line
\* (naming the index) first and the body line second; the action line has
\* _id iff product_id or promotion_id is non-empty, and then _id is
\* product_id when that is non-empty and promotion_id otherwise.
C4_TwoLinesAndId ==
    enc_done =>
        /\ Len(enc_out) = 2
        /\ enc_out[1].kind = "action"
        /\ enc_out[1]._index = enc_index
        /\ enc_out[2] = BodyLine(enc_doc)
        /\ enc_out[1].has_id <=>
               (NonEmpty(enc_doc.product_id) \/ NonEmpty(enc_doc.promotion_id))
        /\ enc_out[1].has_id =>
               enc_out[1]._id = IF NonEmpty(enc_doc.product_id)
                                THEN enc_doc.product_id
                                ELSE enc_doc.promotion_id

\* A Record with an empty product_id and a promotion_id was encoded: the
\* _id is the promotion_id.
C4_Witness ==
    /\ enc_done
    /\ enc_doc.product_id = ""
    /\ enc_doc.promotion_id = "q1"
    /\ enc_out[1].has_id
    /\ enc_out[1]._id = "q1"

\* C5: once a Transport call has failed the run is over: that call is the
\* last one made, the batches before it were sent in order and stay sent,
\* no summary is printed and the process ends with the transport error.
C5_TransportFailureAborts ==
    Len(posted) > Len(delivered) =>
        /\ pc = "Aborted"
        /\ Len(posted) = Len(delivered) + 1
        /\ Len(posted) <= Len(AllBatches)
        /\ posted = Prefix(AllBatches, Len(posted))
        /\ delivered = Prefix(AllBatches, Len(posted) - 1)
        /\ batches_sent = Len(delivered)
        /\ output = <<>>
        /\ exit_msg \in TransportErrors

\* Batch 2 of 3 met a connection failure; what batch 1 stored is still there.
C5_Witness ==
    /\ pc = "Aborted"
    /\ Len(AllBatches) = 3
    /\ Len(posted) = 2
    /\ Len(delivered) = 1
    /\ sink # {}
    /\ exit_msg = "Network error during import"

\* C6: the batches_sent a summary reports is the number of Transport calls
\* of the run, both collections together; an empty collection adds none.
C6_BatchesSentCountsCalls ==
    output # <<>> =>
        /\ output[1].n = Len(posted)
        /\ Len(posted) = Len(ProductBatches) + Len(PromotionBatches)
        /\ dataset.products = <<>> => Len(ProductBatches) = 0
        /\ dataset.promotions = <<>> => Len(PromotionBatches) = 0

\* A summary after an empty products collection and two promotions batches.
C6_Witness ==
    /\ output # <<>>
    /\ dataset.products = <<>>
    /\ output[1].n = 2
    /\ Len(posted) = 2

\* C7: in a run that completes, failed is the subsequence of all returned
\* per-item outcomes (batch order, then item order) with a non-empty error
\* detail under `index`, and its length is the count printed.
C7_FailedIsErrorSubsequence ==
    pc = "Done" =>
        /\ failed = SelectSeq(AllItems, ErrorUnderIndex)
        /\ failed # <<>> => output[2].n = Len(failed)
        /\ failed = <<>> => Len(output) = 2

\* A completed run with four outcomes returned, one of them an error under
\* `index` and one an error under another key: exactly 1 failed item.
C7_Witness ==
    /\ pc = "Done"
    /\ Len(AllItems) = 4
    /\ Len(failed) = 1
    /\ \E j \in 1..4 : AllItems[j].op = "create"
    /\ output[2].n = 1

HasItemError ==
    LET items == AllItems
    IN  \E j \in 1..Len(items) : ErrorUnderIndex(items[j])

\* C8: failed items end no run: a run with failed items ends early only on
\* a failed Transport call, and when it completes every batch of both
\* collections was sent and the failed items are in the printed summary.
C8_ItemErrorsNonFatal ==
    HasItemError =>
        /\ (pc = "Aborted" \/ exit_msg # NoExit) => Len(posted) > Len(delivered)
        /\ pc = "Done" =>
               /\ delivered = AllBatches
               /\ failed # <<>>
               /\ output[2].msg = "Documents with errors:"
               /\ output[2].n = Len(failed)
               /\ output[3].items = Prefix(failed, Min(SampleSize, Len(failed)))

\* The first item of the first batch failed; the two batches after it were
\* sent and the run printed its summary.
C8_Witness ==
    /\ pc = "Done"
    /\ Len(delivered) = 3
    /\ Len(answers[1].items) > 0
    /\ ErrorUnderIndex(answers[1].items[1])
    /\ output[2].n >= 1

\* C9: with skip_promotions set and promotions in the dataset, no promotions
\* Record is encoded, every Transport call carries a products batch, and
\* the summary counts the products batches alone.
C9_SkippedPromotionsNeverSent ==
    (skip_promotions /\ dataset.promotions # <<>>) =>
        /\ promotion_lines = <<>>
        /\ Len(posted) <= Len(ProductBatches)
        /\ posted = Prefix(ProductBatches, Len(posted))
        /\ \A k \in 1..Len(posted) : \A i \in 1..Len(posted[k]) :
               posted[k][i]._index # DEFAULT_PROMOTIONS_INDEX
        /\ output # <<>> => output[1].n = Len(ProductBatches)

\* A completed run that skipped two promotions and sent two products batches.
C9_Witness ==
    /\ skip_promotions
    /\ Len(dataset.promotions) = 2
    /\ pc = "Done"
    /\ output[1].n = 2
    /\ Len(posted) = 2

\* Every Record of the dataset carries an identity field.
AllIdentity ==
    /\ \A i \in 1..Len(dataset.products) :
           NonEmpty(dataset.products[i].product_id)
               \/ NonEmpty(dataset.products[i].promotion_id)
    /\ \A i \in 1..Len(dataset.promotions) :
           NonEmpty(dataset.promotions[i].product_id)
               \/ NonEmpty(dataset.promotions[i].promotion_id)

\* C10: after a first run that completed against a sink storing by
\* (index, _id), a further run on the same dataset, all of whose Records
\* carry an identity field, leaves the set of stored keys as it found it.
C10_RerunAddsNoDocument ==
    (run >= 2 /\ first_run = "done" /\ AllIdentity) => sink = sink_before

\* A second run completed after a first one; both collections were sent
\* again and the sink still holds the two keys of the first run.
C10_Witness ==
    /\ run = 2
    /\ first_run = "done"
    /\ AllIdentity
    /\ pc = "Done"
    /\ Len(delivered) >= 2
    /\ Cardinality(sink) = 2
    /\ sink = sink_before

\* The items of the first n responses, in order.
ItemsGiven(n) ==
    Concat([k \in 1..n |-> IF answers[k].has_items THEN answers[k].items
                           ELSE <<>>])

\* C11: batches go out one at a time: a request is made only when every
\* earlier one was answered and its result aggregated, the requests are the
\* batches of the products Batcher in order followed by those of the
\* promotions Batcher in order, and when the first promotions batch is sent
\* every products batch was answered and its items are in errors.
C11_StrictlySequential ==
    LET pb == ProductBatches
        ab == pb \o PromotionBatches
    IN  /\ Len(posted) - Len(delivered) \in {0, 1}
        /\ delivered = Prefix(posted, Len(delivered))
        /\ Len(answers) = Len(delivered)
        /\ batches_sent = Len(delivered)
        /\ errors = ItemsGiven(Len(answers))
        /\ Len(posted) <= Len(ab)
        /\ posted = Prefix(ab, Len(posted))
        /\ Len(posted) > Len(pb) =>
               LET of_products == ItemsGiven(Len(pb))
               IN  /\ Len(delivered) >= Len(pb)
                   /\ Prefix(delivered, Len(pb)) = pb
                   /\ Prefix(errors, Len(of_products)) = of_products

\* Two products batches, then two promotions batches, all answered.
C11_Witness ==
    /\ pc = "Done"
    /\ Len(ProductBatches) = 2
    /\ Len(PromotionBatches) = 2
    /\ Len(posted) = 4
    /\ posted[3] = PromotionBatches[1]
    /\ Len(errors) = 4

\* C13: a 2xx response without the per-item result field adds no outcome,
\* its batch counts as sent, and the run does not fail because of it: it
\* ends early only on a failed Transport call and otherwise sends every
\* remaining batch and prints its summary.
C13_MissingItemsTolerated ==
    (\E k \in 1..Len(answers) : ~answers[k].has_items) =>
        /\ errors = ItemsGiven(Len(answers))
        /\ batches_sent = Len(answers)
        /\ (pc = "Aborted" \/ exit_msg # NoExit) => Len(posted) > Len(delivered)
        /\ pc = "Done" =>
               LET ab == AllBatches
               IN  /\ delivered = ab
                   /\ output[1].n = Len(ab)

\* The first of three batches was answered without items; the other two
\* were sent, one outcome came back, and the summary counts three batches.
C13_Witness ==
    /\ pc = "Done"
    /\ Len(answers) = 3
    /\ ~answers[1].has_items
    /\ Len(posted[1]) = 2
    /\ Len(errors) = 1
    /\ output[1].n = 3

\* C16: every action line of a batch sent in the products pass names the
\* products index and every action line of a batch sent in the promotions
\* pass names the promotions index, so no batch holds lines of both
\* collections, a partial last products batch included.
C16_NoMixedBatch ==
    LET products_pass == Len(ProductBatches)
    IN  \A k \in 1..Len(posted) : \A i \in 1..Len(posted[k]) :
            posted[k][i].kind = "action" =>
                posted[k][i]._index =
                    IF k <= products_pass THEN DEFAULT_PRODUCTS_INDEX
                    ELSE DEFAULT_PROMOTIONS_INDEX

\* With chunk_size 2 the one product went out in a partial batch of its own
\* and the promotions followed in the next batch.
C16_Witness ==
    /\ chunk_size = 2
    /\ Len(dataset.products) = 1
    /\ Len(dataset.promotions) = 2
    /\ Len(posted) = 2
    /\ Len(posted[1]) = 2
    /\ posted[1][1]._index = DEFAULT_PRODUCTS_INDEX
    /\ Len(posted[2]) = 4
    /\ posted[2][1]._index = DEFAULT_PROMOTIONS_INDEX

PreflightErrors ==
    {"Dataset file not found", "Invalid JSON in dataset file",
     "API key is required"}

\* C12: with an empty or missing credential, or a dataset file that is
\* missing or does not parse, the program never gets to import_documents:
\* it makes no Transport call, prints nothing, and ends with the fatal
\* error of the failed pre-flight test.
C12_PreflightErrorsMakeNoCall ==
    (~Truthy(api_key) \/ dataset_file # "ok") =>
        /\ posted = <<>>
        /\ output = <<>>
        /\ pc \in {"Main", "CheckApiKey", "Exited"}
        /\ pc = "Exited" => exit_msg \in PreflightErrors
        /\ pc # "Exited" => exit_msg = NoExit

\* The dataset was loaded, it has products, and the empty API key ended
\* the program.
C12_Witness ==
    /\ pc = "Exited"
    /\ dataset_file = "ok"
    /\ api_key = ""
    /\ dataset.products # <<>>
    /\ exit_msg = "API key is required"
    /\ posted = <<>>

\* The positions of the items of `items` that carry an index error.
FailedAt(items) ==
    {i \in 1..Len(items) : items[i].op = "index" /\ items[i].error # ""}

\* The k-th smallest member of a set of positions.
KthOf(positions, k) ==
    CHOOSE i \in positions : Cardinality({j \in positions : j <= i}) = k

\* C14: a finished summary starts with the number of batches sent; then it
\* has either the no-errors message alone, when no item failed, or the
\* number K of failed items followed by a sample that is the first
\* min(5, K) failed items in their order, when K > 0.
C14_SummaryShape ==
    pc = "Done" =>
        LET at == FailedAt(errors)
            K == Cardinality(at)
        IN  /\ output[1] =
                 Line("Bulk import finished. Batches sent:", batches_sent, <<>>)
            /\ K = 0 =>
                 /\ Len(output) = 2
                 /\ output[2] =
                      Line("All documents indexed without reported errors.",
                           0, <<>>)
            /\ K > 0 =>
                 /\ Len(output) = 3
                 /\ output[2] = Line("Documents with errors:", K, <<>>)
                 /\ output[3].msg = "sample"
                 /\ output[3].items =
                      [k \in 1..Min(5, K) |-> errors[KthOf(at, k)]]

\* Six items failed among the collected ones and the sample holds five.
C14_Witness ==
    /\ pc = "Done"
    /\ Cardinality(FailedAt(errors)) = 6
    /\ Len(output) = 3
    /\ Len(output[3].items) = 5

\* C15, as stated: the promotions are encoded only after the last products
\* batch has been sent, so that encoded promotions, or a serialization
\* failure of a promotions Record, are only seen once every products batch
\* was delivered.
C15_PromotionsEncodedAfterProductsSent ==
    /\ promotion_lines # <<>> =>
         /\ Len(delivered) >= Len(ProductBatches)
         /\ Prefix(delivered, Len(ProductBatches)) = ProductBatches
    /\ (exit_msg = "TypeError" /\ AllSerializable(dataset.products)) =>
         delivered = chunked(make_bulk_lines(dataset.products,
                                             DEFAULT_PRODUCTS_INDEX),
                             chunk_size)

\* C15, amended: the states follow each other in the order
\* EncodingProducts, EncodingPromotions, BatchingProducts,
\* BatchingPromotions, Summarizing, Done. Both collections are encoded
\* before the first batch is sent: whenever a batch has been posted, or
\* the run is past encoding, both line lists are complete; and a run with
\* a Record that does not serialize makes no Transport call at all.
C15_BothEncodedBeforeAnySend ==
    /\ pc = "EncodingProducts" =>
         posted = <<>> /\ product_lines = <<>> /\ promotion_lines = <<>>
    /\ pc = "EncodingPromotions" =>
         /\ posted = <<>> /\ promotion_lines = <<>>
         /\ product_lines =
              make_bulk_lines(dataset.products, DEFAULT_PRODUCTS_INDEX)
    /\ (posted # <<>>
          \/ pc \in {"BatchingProducts", "BatchingPromotions",
                     "Summarizing", "Done"}) =>
         /\ AllSerializable(dataset.products)
         /\ AllSerializable(Promotions)
         /\ product_lines =
              make_bulk_lines(dataset.products, DEFAULT_PRODUCTS_INDEX)
         /\ promotion_lines =
              make_bulk_lines(Promotions, DEFAULT_PROMOTIONS_INDEX)
    /\ pc \in {"BatchingPromotions", "Summarizing", "Done"} =>
         /\ Len(delivered) >= Len(ProductBatches)
         /\ Prefix(delivered, Len(ProductBatches)) = ProductBatches
    /\ exit_msg = "TypeError" =>
         pc = "Aborted" /\ posted = <<>> /\ output = <<>>

\* A promotions Record did not serialize: the run ended with the products
\* encoded and no batch sent, although there were products to send.
C15_Witness ==
    /\ pc = "Aborted"
    /\ exit_msg = "TypeError"
    /\ dataset.products # <<>>
    /\ product_lines # <<>>
    /\ ~AllSerializable(Promotions)
    /\ posted = <<>>

\* C17: the first request of a run is initialize (id 1) and a run that gets
\* past the key test makes it; a request follows it only when it succeeded;
\* tools/list (id 2) comes second if at all; and nothing, so no tools/call,
\* follows a failed tools/list.
C17_InitializeGatesEveryRequest ==
    /\ Len(m_replies) = Len(m_requests)
    /\ m_pc \in {"Initialized", "Listed", "Queued", "Done"} => m_requests # <<>>
    /\ m_requests # <<>> => m_requests[1] = Request("initialize", 1, "", "")
    /\ Len(m_requests) > 1 => m_replies[1] = "ok"
    /\ \A k \in 2..Len(m_requests) :
         /\ m_requests[k].method \in {"tools/list", "tools/call"}
         /\ m_requests[k].method = "tools/list" => k = 2
         /\ m_requests[k].method = "tools/call" =>
              \A j \in 1..(k - 1) :
                  m_requests[j].method = "tools/list" => m_replies[j] = "ok"
    /\ m_exit \in {"Initialization failed", "tools/list failed"} =>
         /\ m_replies[Len(m_replies)] = "failed"
         /\ m_pc = "Exited"

\* tools/list failed in a run that had default calls and --tool specs to
\* make: two requests were made and the run is over.
C17_Witness ==
    /\ m_pc = "Exited"
    /\ m_exit = "tools/list failed"
    /\ Len(m_requests) = 2
    /\ m_replies = <<"ok", "failed">>
    /\ ~m_args.skip_default_tools
    /\ m_args.tool # <<>>
    /\ parse_tool_specs(m_args.tool).status = "ok"

IsToolCall(request) == request.method = "tools/call"

IsGiven(raw) == raw.name # ""

\* C18: the tools/call requests made so far are the first m_idx entries of
\* the queue, one each, in queue order, the k-th with id 100 + k, whatever
\* the earlier calls answered; the queue is default calls first and then
\* the --tool specs in the order given; a finished run has called the whole
\* queue and its last line reports completion.
C18_EveryQueuedToolCalledOnce ==
    m_pc \in {"Queued", "Done"} =>
        LET calls == SelectSeq(m_requests, IsToolCall)
            given == SelectSeq(m_args.tool, IsGiven)
            d == Len(m_queue) - Len(given)
        IN  /\ Len(calls) = m_idx
            /\ m_idx <= Len(m_queue)
            /\ \A k \in 1..Len(calls) :
                 calls[k] = Request("tools/call", 100 + k, m_queue[k].name,
                                    m_queue[k].args)
            /\ d \in 0..Len(DEFAULT_CANDIDATE_TOOLS)
            /\ \A k \in 1..d :
                 \E c \in 1..Len(DEFAULT_CANDIDATE_TOOLS) :
                     m_queue[k] = DEFAULT_CANDIDATE_TOOLS[c]
            /\ \A k \in 1..Len(given) : m_queue[d + k].name = given[k].name
            /\ m_pc = "Done" =>
                 /\ m_idx = Len(m_queue)
                 /\ m_exit = NoExit
                 /\ m_out[Len(m_out)] = "MCP connectivity checks completed."

\* A default call failed, the --tool call after it was made all the same
\* and succeeded, and the run reported completion.
C18_Witness ==
    /\ m_pc = "Done"
    /\ Len(m_queue) >= 2
    /\ m_queue[1].name = "healthy_basket_products"
    /\ m_queue[Len(m_queue)].name = "t1"
    /\ \E k \in 1..Len(m_requests) :
         /\ m_requests[k].rid = 101
         /\ m_replies[k] = "failed"
    /\ m_requests[Len(m_requests)].rid = 100 + Len(m_queue)
    /\ m_replies[Len(m_replies)] = "ok"

====
